---- MODULE Spec2Model ----
(***************************************************************************)
(* Model of BrightDataSearchEngineComponent                                *)
(* (langflow/components/brightdata/brightdata_search_engine.py).           *)
(*                                                                         *)
(* Python strings are sequences of Unicode code points, so that strip(),   *)
(* str(), urllib.parse.quote() and the f-strings are computed rather than  *)
(* assumed.  Enumerated values (engine selector, status) are TLA+ strings. *)
(***************************************************************************)
EXTENDS Integers, Sequences, FiniteSets, TLC

\* ---------------------------------------------------------------- bounds
MaxLen == 3
MaxInputLen == 2
MaxBody == 1
MaxInvocations == 2

\* ------------------------------------------------------- input alphabets
\* URL builder: space, no-break space, 'a', '/', '&', e-acute, a lone surrogate
QueryChars == {32, 160, 97, 47, 38, 233, 55296}
\* search_web: space, 'a', a lone surrogate
InputChars == {32, 97, 55296}
\* 'X', e-acute
BodyChars == {88, 233}
Engines == {"google", "bing", "yandex", "Bing", ""}
InputEngines == {"google", "bing", "yandex", "Bing"}
Statuses == {200, 204, 503}

SeqsUpTo(S, n) == UNION {[1..k -> S] : k \in 0..n}

QueryStrings == SeqsUpTo(QueryChars, MaxLen)
\* the input texts of search_web, a lone no-break space among them
InputStrings == SeqsUpTo(InputChars, MaxInputLen) \cup {<<160>>}
Bodies == SeqsUpTo(BodyChars, MaxBody)

\* ------------------------------------------------------- string literals
NoneText ==
    <<78, 111, 110, 101>>
RequiredMsg ==
    <<83, 101, 97, 114, 99, 104, 32, 113, 117, 101, 114, 121, 32, 105, 115,
      32, 114, 101, 113, 117, 105, 114, 101, 100>>
YandexTemplate ==
    <<104, 116, 116, 112, 115, 58, 47, 47, 121, 97, 110, 100, 101, 120, 46,
      99, 111, 109, 47, 115, 101, 97, 114, 99, 104, 47, 63, 116, 101, 120,
      116, 61>>
BingTemplate ==
    <<104, 116, 116, 112, 115, 58, 47, 47, 119, 119, 119, 46, 98, 105, 110,
      103, 46, 99, 111, 109, 47, 115, 101, 97, 114, 99, 104, 63, 113, 61>>
GoogleTemplate ==
    <<104, 116, 116, 112, 115, 58, 47, 47, 119, 119, 119, 46, 103, 111, 111,
      103, 108, 101, 46, 99, 111, 109, 47, 115, 101, 97, 114, 99, 104, 63,
      113, 61>>
HttpErrorPrefix ==
    <<69, 114, 114, 111, 114, 32, 115, 101, 97, 114, 99, 104, 105, 110, 103,
      58, 32, 72, 84, 84, 80, 32>>
HttpErrorSep ==
    <<32, 45, 32>>
ExceptionPrefix ==
    <<69, 120, 99, 101, 112, 116, 105, 111, 110, 32, 111, 99, 99, 117, 114,
      114, 101, 100, 32, 119, 104, 105, 108, 101, 32, 115, 101, 97, 114, 99,
      104, 105, 110, 103, 58, 32>>
UnknownQuery ==
    <<117, 110, 107, 110, 111, 119, 110>>
BearerPrefix ==
    <<66, 101, 97, 114, 101, 114, 32>>
\* the token value "tok"
ApiTokens == {<<116, 111, 107>>}

\* ---------------------------------------------------------- Python values
PyNone == [t |-> "None", s |-> <<>>]
PyString(s) == [t |-> "str", s |-> s]
PyValues == {PyNone} \cup {PyString(s) : s \in InputStrings}

\* query_input is a plain value, or a Message-like object with a text field
PlainInput(v) == [form |-> "plain", v |-> v]
MessageInput(v) == [form |-> "message", v |-> v]
QueryInputs == {PlainInput(v) : v \in PyValues} \cup {MessageInput(v) : v \in PyValues}

\* str(v)
PyStr(v) == IF v.t = "None" THEN NoneText ELSE v.s

\* v or ""
OrEmpty(v) == IF v.t = "None" \/ v.s = <<>> THEN PyString(<<>>) ELSE v

\* str.isspace() of one code point
IsSpace(c) ==
    \/ c \in 9..13
    \/ c \in 28..32
    \/ c \in {133, 160, 5760, 8232, 8233, 8239, 8287, 12288}
    \/ c \in 8192..8202

RECURSIVE LStrip(_)
LStrip(s) == IF s # <<>> /\ IsSpace(Head(s)) THEN LStrip(Tail(s)) ELSE s

RECURSIVE RStrip(_)
RStrip(s) ==
    IF s # <<>> /\ IsSpace(s[Len(s)]) THEN RStrip(SubSeq(s, 1, Len(s) - 1)) ELSE s

strip_noop(s) == s

\* str.strip()
strip(s) == RStrip(LStrip(s))

\* str(n) for a non-negative integer
RECURSIVE PyStrInt(_)
PyStrInt(n) == IF n < 10 THEN <<48 + n>> ELSE PyStrInt(n \div 10) \o <<48 + (n % 10)>>

\* ------------------------------------------------------ urllib.parse.quote
IsSurrogate(c) == c \in 55296..57343

\* str.encode("utf-8") of one code point (not a surrogate)
Utf8(c) ==
    IF c < 128 THEN <<c>>
    ELSE IF c < 2048 THEN <<192 + (c \div 64), 128 + (c % 64)>>
    ELSE IF c < 65536
        THEN <<224 + (c \div 4096), 128 + ((c \div 64) % 64), 128 + (c % 64)>>
    ELSE <<240 + (c \div 262144), 128 + ((c \div 4096) % 64),
           128 + ((c \div 64) % 64), 128 + (c % 64)>>

RECURSIVE Utf8Seq(_)
Utf8Seq(s) == IF s = <<>> THEN <<>> ELSE Utf8(Head(s)) \o Utf8Seq(Tail(s))

HexDigit(n) == IF n < 10 THEN 48 + n ELSE 55 + n

IsSafeByte_amp(b) ==
    \/ b \in 48..57
    \/ b \in 65..90
    \/ b \in 97..122
    \/ b \in {95, 46, 45, 126}
    \/ b = 47
    \/ b = 38

\* the bytes quote() leaves alone: letters, digits, "_.-~" and safe="/"
IsSafeByte(b) ==
    \/ b \in 48..57
    \/ b \in 65..90
    \/ b \in 97..122
    \/ b \in {95, 46, 45, 126}
    \/ b = 47

QuoteByte(b) == IF IsSafeByte(b) THEN <<b>> ELSE <<37, HexDigit(b \div 16), HexDigit(b % 16)>>

RECURSIVE QuoteBytes(_)
QuoteBytes(bs) == IF bs = <<>> THEN <<>> ELSE QuoteByte(Head(bs)) \o QuoteBytes(Tail(bs))

Returned(v) == [raised |-> FALSE, exc |-> "", v |-> v]
Raised(e) == [raised |-> TRUE, exc |-> e, v |-> <<>>]

\* urllib.parse.quote(string): UTF-8 encode (strict), then quote the bytes
quote(string) ==
    IF \E i \in 1..Len(string) : IsSurrogate(string[i])
    THEN Raised("UnicodeEncodeError")
    ELSE Returned(QuoteBytes(Utf8Seq(string)))

\* ------------------------------------------------------- component methods
_build_search_url(eng, q) ==
    LET encoded_query == quote(q) IN
    IF encoded_query.raised THEN encoded_query
    ELSE IF eng = "yandex" THEN Returned(YandexTemplate \o encoded_query.v)
    ELSE IF eng = "bing" THEN Returned(BingTemplate \o encoded_query.v)
    ELSE Returned(GoogleTemplate \o encoded_query.v)

get_query_from_input_uniform(qi) == strip(PyStr(OrEmpty(qi.v)))

get_query_from_input(qi) ==
    IF qi.form = "message"
    THEN strip(PyStr(qi.v))
    ELSE strip(PyStr(OrEmpty(qi.v)))

\* the Data records search_web returns
Data(text, data) == [kind |-> "Data", exc |-> "", text |-> text, data |-> data]
Exception(e) == [kind |-> "raise", exc |-> e, text |-> <<>>, data |-> [status |-> "none"]]
NoResult == [kind |-> "none", exc |-> "", text |-> <<>>, data |-> [status |-> "none"]]

ValidationError ==
    Data(RequiredMsg, [status |-> "error", error |-> RequiredMsg])

IsOk_2xx(status_code) == status_code \in 200..299

\* response.status_code == 200
IsOk(status_code) == status_code = 200

SuccessResult_bytes(results, q, eng, url) ==
    Data(results,
         [query |-> q, engine |-> eng, search_url |-> url, status |-> "success",
          results_length |-> Len(Utf8Seq(results))])

SuccessResult(results, q, eng, url) ==
    Data(results,
         [query |-> q, engine |-> eng, search_url |-> url, status |-> "success",
          results_length |-> Len(results)])

HttpErrorResult(status_code, body, q, eng) ==
    LET error_msg == HttpErrorPrefix \o PyStrInt(status_code) \o HttpErrorSep \o body IN
    Data(error_msg, [query |-> q, engine |-> eng, status |-> "error", error |-> error_msg])

Unbound == [bound |-> FALSE, s |-> <<>>]
Bound(s) == [bound |-> TRUE, s |-> s]

RequestExceptionResult_unknown(e, q, eng) ==
    LET error_msg == ExceptionPrefix \o e IN
    Data(error_msg,
         [query |-> UnknownQuery,
          engine |-> eng, status |-> "error", error |-> error_msg])

\* except requests.RequestException as e; q is the local variable query
RequestExceptionResult(e, q, eng) ==
    LET error_msg == ExceptionPrefix \o e IN
    Data(error_msg,
         [query |-> IF q.bound THEN q.s ELSE UnknownQuery,
          engine |-> eng, status |-> "error", error |-> error_msg])

PostRequest(url, token) ==
    [endpoint |-> "https://api.brightdata.com/request",
     json |-> [url |-> url, zone |-> "mcp_unlocker", format |-> "raw",
               data_format |-> "markdown"],
     headers |-> [authorization |-> BearerPrefix \o token,
                  content_type |-> "application/json"],
     timeout |-> 120]

\* ------------------------------------------------------------------ state
VARIABLES
    query_input,    \* self.query_input
    engine,         \* self.engine
    api_token,      \* self.api_token
    pc,             \* "idle", "posting", "returned", "raised"
    query,          \* local variable query of search_web
    search_url,     \* local variable search_url of search_web
    sent,           \* requests.post calls made by the current invocation
    outcome,        \* what requests.post did: NoOutcome, Response, RequestException
    result,         \* what search_web returned or raised
    nInvocations,   \* invocations started
    nNonEmpty,      \* invocations whose normalized query was non-empty
    nRequests,      \* requests.post calls made by all invocations
    b_pc,           \* URL builder harness: "start", "done"
    b_engine,
    b_query,
    b_result

vars == <<query_input, engine, api_token, pc, query, search_url, sent, outcome,
          result, nInvocations, nNonEmpty, nRequests, b_pc, b_engine, b_query,
          b_result>>

compVars == <<query_input, engine, api_token, pc, query, search_url, sent,
              outcome, result, nInvocations, nNonEmpty, nRequests>>
buildVars == <<b_pc, b_engine, b_query, b_result>>

NoOutcome == [kind |-> "none", status_code |-> 0, text |-> <<>>]
Response(status_code, text) ==
    [kind |-> "response", status_code |-> status_code, text |-> text]
RequestException(text) == [kind |-> "exception", status_code |-> 0, text |-> text]

InitComponent ==
    /\ query_input = PlainInput(PyString(<<>>))
    /\ engine = "google"
    /\ api_token \in ApiTokens
    /\ pc = "idle"
    /\ query = Unbound
    /\ search_url = <<>>
    /\ sent = <<>>
    /\ outcome = NoOutcome
    /\ result = NoResult
    /\ nInvocations = 0
    /\ nNonEmpty = 0
    /\ nRequests = 0

InitBuilderIdle ==
    /\ b_pc = "start"
    /\ b_engine = "google"
    /\ b_query = <<>>
    /\ b_result = Returned(<<>>)

Init == InitComponent /\ InitBuilderIdle

\* search_web, lines 73-94: from the call to the return of the validation
\* error, to the exception out of the URL builder, or to the POST
SearchWebCall(qi, eng) ==
    /\ pc \in {"idle", "returned", "raised"}
    /\ nInvocations < MaxInvocations
    /\ query_input' = qi
    /\ engine' = eng
    /\ nInvocations' = nInvocations + 1
    /\ outcome' = NoOutcome
    /\ LET q == get_query_from_input(qi)
           url == _build_search_url(eng, q)
       IN  /\ query' = Bound(q)
           /\ nNonEmpty' = IF q # <<>> THEN nNonEmpty + 1 ELSE nNonEmpty
           /\ IF q = <<>>
              THEN /\ result' = ValidationError
                   /\ pc' = "returned"
                   /\ search_url' = <<>>
                   /\ sent' = <<>>
                   /\ nRequests' = nRequests
              ELSE IF url.raised
              THEN /\ result' = Exception(url.exc)
                   /\ pc' = "raised"
                   /\ search_url' = <<>>
                   /\ sent' = <<>>
                   /\ nRequests' = nRequests
              ELSE /\ result' = NoResult
                   /\ pc' = "posting"
                   /\ search_url' = url.v
                   /\ sent' = <<PostRequest(url.v, api_token)>>
                   /\ nRequests' = nRequests + 1
    /\ UNCHANGED <<api_token, buildVars>>

\* search_web, lines 94-111: requests.post returns a response
PostResponds(status_code, body) ==
    /\ pc = "posting"
    /\ outcome' = Response(status_code, body)
    /\ result' = IF IsOk(status_code)
                 THEN SuccessResult(body, query.s, engine, search_url)
                 ELSE HttpErrorResult(status_code, body, query.s, engine)
    /\ pc' = "returned"
    /\ UNCHANGED <<query_input, engine, api_token, query, search_url, sent,
                   nInvocations, nNonEmpty, nRequests, buildVars>>

\* search_web, lines 94 and 113-123: requests.post raises RequestException
PostRaises(e) ==
    /\ pc = "posting"
    /\ outcome' = RequestException(e)
    /\ result' = RequestExceptionResult(e, query, engine)
    /\ pc' = "returned"
    /\ UNCHANGED <<query_input, engine, api_token, query, search_url, sent,
                   nInvocations, nNonEmpty, nRequests, buildVars>>

Next ==
    \/ \E qi \in QueryInputs, eng \in InputEngines : SearchWebCall(qi, eng)
    \/ \E status_code \in Statuses, body \in Bodies : PostResponds(status_code, body)
    \/ \E e \in Bodies : PostRaises(e)

Spec == Init /\ [][Next]_vars

\* ------------------------------------------- the URL builder on its own
InitBuild ==
    /\ InitComponent
    /\ b_pc = "start"
    /\ b_engine \in Engines
    /\ b_query \in QueryStrings
    /\ b_result = Returned(<<>>)

BuildSearchUrl ==
    /\ b_pc = "start"
    /\ b_result' = _build_search_url(b_engine, b_query)
    /\ b_pc' = "done"
    /\ UNCHANGED <<b_engine, b_query, compVars>>

NextBuild == BuildSearchUrl

SpecBuild == InitBuild /\ [][NextBuild]_vars

\* ------------------------------------------------------------ properties
Contains(hay, needle) ==
    \E i \in 0..(Len(hay) - Len(needle)) : SubSeq(hay, i + 1, i + Len(needle)) = needle

StartsWith(s, prefix) ==
    Len(s) >= Len(prefix) /\ SubSeq(s, 1, Len(prefix)) = prefix

\* the input carries a text that is empty or whitespace only
BlankInput(qi) ==
    qi.v.t = "str" /\ \A i \in 1..Len(qi.v.s) : IsSpace(qi.v.s[i])

Invoked == pc # "idle"
Completed == pc \in {"returned", "raised"}

\* C1: an invocation whose input text is empty or whitespace only returns the
\* error record "Search query is required" and issues no request.
C1_BlankQueryShortCircuits ==
    (Invoked /\ BlankInput(query_input)) =>
        /\ pc = "returned"
        /\ result.kind = "Data"
        /\ result.text = RequiredMsg
        /\ result.data.status = "error"
        /\ result.data.error = RequiredMsg
        /\ sent = <<>>
        /\ outcome = NoOutcome

C1_Witness ==
    /\ pc = "returned"
    /\ query_input = MessageInput(PyString(<<32, 32>>))
    /\ result.text = RequiredMsg
    /\ sent = <<>>

\* C2: search_web never raises an exception to its caller; every invocation
\* ends by returning a record.
C2_NeverRaises ==
    /\ pc # "raised"
    /\ Completed => result.kind = "Data"

\* C3: every returned record has status, query and engine in its data map;
\* a success record also has search_url and results_length, an error record
\* also has error.
C3_UniformRecord ==
    pc = "returned" =>
        /\ {"status", "query", "engine"} \subseteq DOMAIN result.data
        /\ result.data.status \in {"success", "error"}
        /\ result.data.status = "success" =>
               {"search_url", "results_length"} \subseteq DOMAIN result.data
        /\ result.data.status = "error" => "error" \in DOMAIN result.data

\* C5: on HTTP 200 with body B the record has text B and data {query: the
\* normalized query, engine, search_url: the URL sent in the payload,
\* status: success, results_length: length of B}.
C5_SuccessRecord ==
    (pc = "returned" /\ outcome.kind = "response" /\ outcome.status_code = 200) =>
        /\ Len(sent) = 1
        /\ query.s # <<>>
        /\ result.kind = "Data"
        /\ result.text = outcome.text
        /\ result.data =
               [query |-> get_query_from_input(query_input),
                engine |-> engine,
                search_url |-> sent[1].json.url,
                status |-> "success",
                results_length |-> Len(outcome.text)]
        /\ _build_search_url(engine, query.s) = Returned(sent[1].json.url)

C5_Witness ==
    /\ pc = "returned"
    /\ outcome = Response(200, <<233>>)
    /\ query_input = PlainInput(PyString(<<32, 97>>))
    /\ result.data.status = "success"
    /\ result.data.results_length = 1
    /\ result.data.query = <<97>>

\* C6: on any HTTP status other than 200 (other 2xx included) the record is
\* an error record with query and engine, whose text and error message
\* contain the status code and the body; success is returned only for 200.
C6_Non200IsError ==
    /\ (pc = "returned" /\ outcome.kind = "response" /\ outcome.status_code # 200) =>
        /\ result.kind = "Data"
        /\ result.data.status = "error"
        /\ result.data.query = query.s
        /\ result.data.engine = engine
        /\ Contains(result.text, PyStrInt(outcome.status_code))
        /\ Contains(result.text, outcome.text)
        /\ Contains(result.data.error, PyStrInt(outcome.status_code))
        /\ Contains(result.data.error, outcome.text)
    /\ (pc = "returned" /\ result.data.status = "success") =>
        (outcome.kind = "response" /\ outcome.status_code = 200)

C6_Witness ==
    /\ pc = "returned"
    /\ outcome = Response(204, <<88>>)
    /\ result.data.status = "error"
    /\ Contains(result.text, <<50, 48, 52>>)

HostOf(eng) ==
    IF eng = "yandex" THEN <<104, 116, 116, 112, 115, 58, 47, 47, 121, 97, 110,
                             100, 101, 120, 46, 99, 111, 109, 47>>
    ELSE IF eng = "bing" THEN <<104, 116, 116, 112, 115, 58, 47, 47, 119, 119,
                                119, 46, 98, 105, 110, 103, 46, 99, 111, 109, 47>>
    ELSE <<104, 116, 116, 112, 115, 58, 47, 47, 119, 119, 119, 46, 103, 111,
           111, 103, 108, 101, 46, 99, 111, 109, 47>>

\* C4: the builder returns a URL for every engine value and every query
\* string; the host is bing's for "bing", yandex's for "yandex" and google's
\* for every other engine value.
C4_HostByExactMatch ==
    b_pc = "done" =>
        /\ ~b_result.raised
        /\ StartsWith(b_result.v, HostOf(b_engine))

\* C7: an invocation issues at most one POST, and exactly one when the
\* normalized query is non-empty; over any sequence of invocations the number
\* of requests equals the number of invocations with a non-empty query.
C7_OnePostPerNonEmptyQuery ==
    /\ Len(sent) <= 1
    /\ Completed => Len(sent) = (IF query.s # <<>> THEN 1 ELSE 0)
    /\ (pc = "idle" \/ Completed) => nRequests = nNonEmpty

\* the part of a built URL after the "=" of its template
RECURSIVE AfterFirst(_, _)
AfterFirst(s, c) ==
    IF s = <<>> THEN <<>>
    ELSE IF Head(s) = c THEN Tail(s)
    ELSE AfterFirst(Tail(s), c)

QueryPart(url) == AfterFirst(url, 61)

\* RFC 3986 reserved characters  : / ? # [ ] @ ! $ & ' ( ) * + , ; =
ReservedChars == {58, 47, 63, 35, 91, 93, 64, 33, 36, 38, 39, 40, 41, 42, 43, 44, 59, 61}

IsHexDigit(c) == c \in 48..57 \/ c \in 65..70
HexValue(c) == IF c \in 48..57 THEN c - 48 ELSE c - 55

RECURSIVE PercentDecode(_)
PercentDecode(s) ==
    IF s = <<>> THEN <<>>
    ELSE IF Head(s) = 37 /\ Len(s) >= 3 /\ IsHexDigit(s[2]) /\ IsHexDigit(s[3])
        THEN <<16 * HexValue(s[2]) + HexValue(s[3])>> \o PercentDecode(SubSeq(s, 4, Len(s)))
    ELSE <<Head(s)>> \o PercentDecode(Tail(s))

\* C8 as stated: the query part of a returned URL holds no literal space and
\* no unencoded reserved character.
C8_NoReservedCharInQueryPart ==
    (b_pc = "done" /\ ~b_result.raised) =>
        \A i \in 1..Len(QueryPart(b_result.v)) :
            QueryPart(b_result.v)[i] \notin ReservedChars \cup {32}

\* C8 amended: the query part of a returned URL holds no literal space (a
\* space is %20) and no unencoded reserved character other than "/", and
\* percent-decoding it gives the UTF-8 bytes of the query.
C8_PercentEncodedExceptSlash ==
    (b_pc = "done" /\ ~b_result.raised) =>
        LET part == QueryPart(b_result.v) IN
        /\ \A i \in 1..Len(part) : part[i] \notin (ReservedChars \ {47}) \cup {32}
        /\ \A i \in 1..Len(part) : part[i] < 128
        /\ Contains(b_query, <<32>>) => Contains(part, <<37, 50, 48>>)
        /\ Contains(b_query, <<47>>) => Contains(part, <<47>>)
        /\ PercentDecode(part) = Utf8Seq(b_query)

C8_Witness ==
    /\ b_pc = "done"
    /\ b_query = <<97, 32, 38>>
    /\ b_engine = "bing"
    /\ ~b_result.raised
    /\ QueryPart(b_result.v) = <<97, 37, 50, 48, 37, 50, 54>>

\* C9: when the POST raises a RequestException the record is an error record
\* with the engine and an error message containing the exception text, and
\* its query field is the normalized query, not the placeholder.
C9_TransportFailureRecord ==
    (pc = "returned" /\ outcome.kind = "exception") =>
        /\ result.kind = "Data"
        /\ result.data.status = "error"
        /\ result.data.engine = engine
        /\ Contains(result.data.error, outcome.text)
        /\ result.text = result.data.error
        /\ query.bound
        /\ result.data.query = get_query_from_input(query_input)
        /\ result.data.query # <<>>
        /\ Len(sent) = 1

C9_Witness ==
    /\ pc = "returned"
    /\ outcome = RequestException(<<88>>)
    /\ query_input = MessageInput(PyString(<<97, 32>>))
    /\ result.data.status = "error"
    /\ result.data.query = <<97>>

\* C10: a plain input that is None or empty ends in the validation error
\* with no request; a message whose text is None becomes the query "None",
\* passes validation and is posted.
C10_NoneInputs ==
    Invoked =>
        /\ query_input \in {PlainInput(PyNone), PlainInput(PyString(<<>>))} =>
            /\ pc = "returned"
            /\ query.s = <<>>
            /\ result.text = RequiredMsg
            /\ result.data.status = "error"
            /\ sent = <<>>
        /\ query_input = MessageInput(PyNone) =>
            /\ query.s = <<78, 111, 110, 101>>
            /\ pc # "raised"
            /\ Len(sent) = 1
            /\ QueryPart(sent[1].json.url) = <<78, 111, 110, 101>>
            /\ Completed => result.text # RequiredMsg

C10_Witness ==
    /\ pc = "returned"
    /\ query_input = MessageInput(PyNone)
    /\ outcome.kind = "response"
    /\ outcome.status_code = 200
    /\ result.data.query = <<78, 111, 110, 101>>

====
